---- MODULE Spec2Model ----
(***************************************************************************)
(* A model of context-cartographer: the two entry points                   *)
(* src/bin/contextmap.py and src/bin/cartographer.py.                      *)
(*                                                                         *)
(* Text is a sequence of Unicode code points (Python str), so len(), the   *)
(* slices and the regular expressions of the source are modelled on the    *)
(* characters themselves.                                                  *)
(***************************************************************************)
EXTENDS Integers, Sequences, FiniteSets, TLC

VARIABLES
    \* ---- the text functions (SpecSan, SpecLine, SpecWin) ----
    input,        \* the text handed to the function under check
    output,       \* what the function returned
    stage,        \* "in": not applied yet; otherwise the function applied
    \* ---- one pipeline run (Spec) ----
    entry,        \* which script runs: "contextmap" | "cartographer"
    pc,           \* position of main()
    logFile,      \* args.log_file on disk: does it exist, can it be read, its text
    logStale,     \* is args.log_file a *.log older than the cleanup cutoff
    startLog,     \* logFile as it was when main() started
    hkFailure,    \* the housekeeping step of this run that raised ("none": none did)
    creds,        \* cartographer.py: is an API key / AWS credential set
    outHasDir,    \* does args.out have a directory component
    outFile,      \* args.out on disk: does it exist, its text
    prevFile,     \* outFile as it was when the run started
    transcript,   \* main's local `transcript`
    old_summary,  \* main's local `old_summary`
    summary,      \* main's local `summary`
    gs,           \* position inside contextmap.generate_summary
    tmpFiles,     \* the scratch files that exist on disk
    tmp_system,   \* generate_summary's local tmp_system (<<>> is None)
    tmp_prompt,   \* generate_summary's local tmp_prompt (<<>> is None)
    engineCalls,  \* how many times this run invoked the engine
    engineFailed, \* did the engine call of this run fail
    request,      \* the request handed to the engine
    runs,         \* the runs started so far (bounded by MaxRuns)
    \* ---- two runs at once against one output path (SpecConc) ----
    proc,         \* the locals and the position of each of the two runs
    writeOrder    \* the runs in the order their write of args.out completed

textVars == <<input, output, stage>>
concVars == <<proc, writeOrder>>
runVars  == <<entry, pc, logFile, logStale, startLog, hkFailure, creds, outHasDir, outFile,
              prevFile, transcript, old_summary, summary, gs, tmpFiles, tmp_system, tmp_prompt,
              engineCalls, engineFailed, request, runs, proc, writeOrder>>
vars     == <<input, output, stage, entry, pc, logFile, logStale, startLog, hkFailure, creds,
              outHasDir, outFile, prevFile, transcript, old_summary, summary, gs, tmpFiles,
              tmp_system, tmp_prompt, engineCalls, engineFailed, request, runs, proc,
              writeOrder>>

----------------------------------------------------------------------------
(* Characters and the character classes of the regular expressions.        *)

ESC == 27
NL == 10
LBRACKET == 91

\* [@-Z\\-_]
EscSingle == (64..90) \cup (92..95)
\* [0-?]
CsiParam == 48..63
\* [ -/]
CsiInter == 32..47
\* [@-~]
CsiFinal == 64..126
\* [\x00-\x09\x0B\x0C\x0E-\x1F\x7F]
OtherControl == (0..9) \cup {11, 12} \cup (14..31) \cup {127}

\* str.isspace() for the characters str.strip() removes
IsSpace(c) == c \in ((9..13) \cup (28..32) \cup {133, 160, 5760} \cup (8192..8202)
                     \cup {8232, 8233, 8239, 8287, 12288})

Min(S) == CHOOSE x \in S : \A y \in S : x <= y
Max(S) == CHOOSE x \in S : \A y \in S : x >= y

\* s[from:] of Python for 1-based from
Drop(s, from) == SubSeq(s, from, Len(s))

\* s[-n:] of Python, for n > 0
LastChars(s, n) == IF Len(s) <= n THEN s ELSE SubSeq(s, Len(s) - n + 1, Len(s))

\* s[:n] of Python, for n >= 0
FirstChars(s, n) == IF Len(s) <= n THEN s ELSE SubSeq(s, 1, n)

\* str.startswith
StartsWith(s, p) == Len(s) >= Len(p) /\ SubSeq(s, 1, Len(p)) = p

\* `p in s` of Python
Contains(s, p) == \E i \in 1..(Len(s) - Len(p) + 1) : SubSeq(s, i, i + Len(p) - 1) = p

\* str.strip()
Strip(s) ==
    LET keep == {i \in 1..Len(s) : ~IsSpace(s[i])}
    IN IF keep = {} THEN <<>> ELSE SubSeq(s, Min(keep), Max(keep))

\* str.split('\n')
RECURSIVE SplitFrom(_, _)
SplitFrom(s, start) ==
    LET nls == {i \in start..Len(s) : s[i] = NL}
    IN IF nls = {} THEN <<SubSeq(s, start, Len(s))>>
       ELSE <<SubSeq(s, start, Min(nls) - 1)>> \o SplitFrom(s, Min(nls) + 1)

Split(s) == SplitFrom(s, 1)

\* "\n".join(lines)
RECURSIVE Join(_)
Join(lines) ==
    IF lines = <<>> THEN <<>>
    ELSE IF Len(lines) = 1 THEN lines[1]
    ELSE lines[1] \o <<NL>> \o Join(Tail(lines))

\* str(n) for n >= 0
RECURSIVE Decimal(_)
Decimal(n) == IF n < 10 THEN <<48 + n>> ELSE Decimal(n \div 10) \o <<48 + (n % 10)>>

----------------------------------------------------------------------------
(* clean_ansi: the sanitizer.                                              *)

\* The length of the match of  \x1B(?:[@-Z\\-_]|\[[0-?]*[ -/]*[@-~])  that
\* starts at the ESC at position i, 0 when there is none. The three classes
\* of the CSI alternative are disjoint, so the greedy stars never backtrack
\* into a match.
AnsiMatchLen(s, i) ==
    IF i + 1 > Len(s) THEN 0
    ELSE IF s[i + 1] \in EscSingle THEN 2
    ELSE IF s[i + 1] # LBRACKET THEN 0
    ELSE LET afterParams == Min({j \in (i + 2)..(Len(s) + 1) :
                                    j = Len(s) + 1 \/ s[j] \notin CsiParam})
             afterInter  == Min({j \in afterParams..(Len(s) + 1) :
                                    j = Len(s) + 1 \/ s[j] \notin CsiInter})
         IN IF afterInter <= Len(s) /\ s[afterInter] \in CsiFinal
            THEN afterInter - i + 1 ELSE 0

\* ansi_escape.sub('', text). No match contains an ESC after its first
\* character, so matches never overlap and the left-to-right scan of re.sub
\* tries every ESC of the text: a character is removed exactly when it lies
\* in the match that starts at some ESC.
AnsiSub(s) ==
    LET escs == {i \in 1..Len(s) : s[i] = ESC}
        gone == {j \in 1..Len(s) : \E i \in escs : i <= j /\ j < i + AnsiMatchLen(s, i)}
        marked == [j \in 1..Len(s) |-> IF j \in gone THEN -1 ELSE s[j]]
    IN SelectSeq(marked, LAMBDA c : c # -1)

\* cartographer.py: clean_ansi
cartographer_clean_ansi(text) == AnsiSub(text)

\* contextmap.py: clean_ansi
clean_ansi(text) == SelectSeq(AnsiSub(text), LAMBDA c : c \notin OtherControl)

----------------------------------------------------------------------------
(* SpecSan: the sanitizers applied to every short text over SanAlphabet.   *)

MaxSanLen == 4

\* ESC, '[', a CSI parameter, a CSI intermediate, a CSI final, newline,
\* backspace
SanAlphabet == {27, 91, 49, 32, 109, 10, 8}

RECURSIVE TextsUpTo(_, _)
TextsUpTo(alphabet, n) ==
    IF n = 0 THEN {<<>>}
    ELSE LET shorter == TextsUpTo(alphabet, n - 1)
         IN shorter \cup {Append(t, c) : t \in {u \in shorter : Len(u) = n - 1}, c \in alphabet}

RunIdle ==
    /\ entry = "none" /\ pc = "off" /\ logFile = "off" /\ logStale = FALSE /\ creds = FALSE
    /\ startLog = "off" /\ hkFailure = "off" /\ proc = <<>> /\ writeOrder = <<>>
    /\ outHasDir = FALSE /\ outFile = "off" /\ prevFile = "off"
    /\ transcript = <<>> /\ old_summary = "off" /\ summary = "off" /\ gs = "off"
    /\ tmpFiles = {} /\ tmp_system = "None" /\ tmp_prompt = "None"
    /\ engineCalls = 0 /\ engineFailed = FALSE /\ request = "off" /\ runs = 0

InitSan ==
    /\ input \in TextsUpTo(SanAlphabet, MaxSanLen)
    /\ output = <<>>
    /\ stage = "in"
    /\ RunIdle

SanContextmap ==
    /\ stage = "in"
    /\ output' = clean_ansi(input)
    /\ stage' = "contextmap"
    /\ UNCHANGED <<input, runVars>>

SanCartographer ==
    /\ stage = "in"
    /\ output' = cartographer_clean_ansi(input)
    /\ stage' = "cartographer"
    /\ UNCHANGED <<input, runVars>>

NextSan == SanContextmap \/ SanCartographer

SpecSan == InitSan /\ [][NextSan]_vars

RECURSIVE IsSubsequence(_, _)
IsSubsequence(a, b) ==
    IF a = <<>> THEN TRUE
    ELSE IF b = <<>> THEN FALSE
    ELSE IF Head(a) = Head(b) THEN IsSubsequence(Tail(a), Tail(b))
    ELSE IsSubsequence(a, Tail(b))

Sanitized == stage \in {"contextmap", "cartographer"}

NoEscapeIntroducer == \A i \in 1..Len(output) : output[i] # ESC

\* As many lines after as before, and every line of the output is what
\* survives of the same line of the input, in order.
NewlinesPreserved ==
    /\ Len(Split(output)) = Len(Split(input))
    /\ \A k \in 1..Len(Split(input)) : IsSubsequence(Split(output)[k], Split(input)[k])

\* C6: for every input text, the output of clean_ansi (in both contextmap.py
\* and cartographer.py) contains no ESC (0x1B) character and has exactly the
\* newlines of the input, in the same positions relative to the surviving
\* characters.
C6_SanitizerNoEscKeepsNewlines == Sanitized => NoEscapeIntroducer /\ NewlinesPreserved

\* What does hold of both sanitizers (the newline half of C6), and of
\* contextmap.clean_ansi (all of C6).
SanitizerKeepsNewlines == Sanitized => NewlinesPreserved
ContextmapSanitizerNoEsc == stage = "contextmap" => NoEscapeIntroducer

----------------------------------------------------------------------------
(* The compressor: contextmap.smart_compress_transcript and the loop of    *)
(* cartographer.parse_transcript.                                          *)

\* "\n--- USER STEP ---\n"
UserStepTag == <<10, 45, 45, 45, 32, 85, 83, 69, 82, 32, 83, 84, 69, 80, 32, 45, 45, 45, 10>>
\* "> "
PromptGt == <<62, 32>>
\* "❯ "
PromptArrow == <<10095, 32>>
\* "Resolving..."
Resolving == <<82, 101, 115, 111, 108, 118, 105, 110, 103, 46, 46, 46>>
\* "Fetching..."
Fetching == <<70, 101, 116, 99, 104, 105, 110, 103, 46, 46, 46>>
\* "Downloading..."
Downloading == <<68, 111, 119, 110, 108, 111, 97, 100, 105, 110, 103, 46, 46, 46>>
\* "... [Output Truncated] ..."
OutputTruncated == <<46, 46, 46, 32, 91, 79, 117, 116, 112, 117, 116, 32, 84, 114, 117,
                     110, 99, 97, 116, 101, 100, 93, 32, 46, 46, 46>>

\* contextmap.py: `len(line) > 300`, `line[:100]`, `line[-100:]`
LineLimit == 300
LineHead == 100
LineTail == 100
\* cartographer.py: `len(line) > 500`, `line[:200]`, `line[-200:]`
CgLineLimit == 500
CgLineHead == 200
CgLineTail == 200

\* f" ... [{len(line)-200} chars truncated] ... "
TruncationMarker(line) ==
    <<32, 46, 46, 46, 32, 91>> \o Decimal(Len(line) - 200)
    \o <<32, 99, 104, 97, 114, 115, 32, 116, 114, 117, 110, 99, 97, 116, 101, 100, 93,
         32, 46, 46, 46, 32>>

IsPrompt(line) == StartsWith(Strip(line), PromptGt) \/ StartsWith(Strip(line), PromptArrow)

IsNoise(line) ==
    Contains(line, Resolving) \/ Contains(line, Fetching) \/ Contains(line, Downloading)

TruncateLine(line) ==
    IF Len(line) > LineLimit
    THEN FirstChars(line, LineHead) \o TruncationMarker(line) \o LastChars(line, LineTail)
    ELSE line

\* The loop body with the test for a progress line put before the test for
\* a prompt.
CompressLine_noise_first(line) ==
    IF IsNoise(line) THEN <<>>
    ELSE IF IsPrompt(line) THEN <<UserStepTag \o Strip(line)>>
    ELSE <<TruncateLine(line)>>

\* One pass of the loop body: what the line appends to `compressed`.
CompressLine(line) ==
    IF IsPrompt(line) THEN <<UserStepTag \o Strip(line)>>
    ELSE IF IsNoise(line) THEN <<>>
    ELSE <<TruncateLine(line)>>

RECURSIVE CompressLines(_)
CompressLines(lines) ==
    IF lines = <<>> THEN <<>> ELSE CompressLine(Head(lines)) \o CompressLines(Tail(lines))

smart_compress_transcript(raw_text) == Join(CompressLines(Split(clean_ansi(raw_text))))

cartographer_TruncateLine(line) ==
    IF Len(line) > CgLineLimit
    THEN FirstChars(line, CgLineHead) \o OutputTruncated \o LastChars(line, CgLineTail)
    ELSE line

RECURSIVE cartographer_CompressLines(_)
cartographer_CompressLines(lines) ==
    IF lines = <<>> THEN <<>>
    ELSE <<cartographer_TruncateLine(Head(lines))>> \o cartographer_CompressLines(Tail(lines))

\* cartographer.parse_transcript after the read
cartographer_compress(raw_data) ==
    Join(cartographer_CompressLines(Split(cartographer_clean_ansi(raw_data))))

----------------------------------------------------------------------------
(* SpecLine: the compressors applied to one line, for line lengths around  *)
(* the thresholds and every kind of line the loop distinguishes.           *)

MaxExtra == 5

\* n printable characters, each position its own character
Body(n) == [i \in 1..n |-> 256 + i]

LineKinds == {"plain", "prompt", "arrow", "noise"}

\* A line of `kind` that is n characters long (n >= 20).
LineOf(kind, n) ==
    CASE kind = "plain"    -> Body(n)
      [] kind = "prompt"   -> PromptGt \o Body(n - 2)
      [] kind = "arrow"    -> PromptArrow \o Body(n - 2)
      [] kind = "noise"    -> Body(5) \o Fetching \o Drop(Body(n - 11), 6)

\* Around both thresholds, and past the length at which an untruncated line
\* exceeds the bound of a truncated one.
LineLens == {base + d : base \in {LineLimit, CgLineLimit, 2 * (LineHead + LineTail) + 12},
                        d \in (-1)..MaxExtra}

InitLine ==
    /\ \E kind \in LineKinds, n \in LineLens : input = LineOf(kind, n)
    /\ output = <<>>
    /\ stage = "in"
    /\ RunIdle

CompressContextmap ==
    /\ stage = "in"
    /\ output' = smart_compress_transcript(input)
    /\ stage' = "contextmap"
    /\ UNCHANGED <<input, runVars>>

CompressCartographer ==
    /\ stage = "in"
    /\ output' = cartographer_compress(input)
    /\ stage' = "cartographer"
    /\ UNCHANGED <<input, runVars>>

NextLine == CompressContextmap \/ CompressCartographer

SpecLine == InitLine /\ [][NextLine]_vars

\* The part of C7 the line's length decides: head + marker + tail against
\* the claimed bound 2 x (head + tail) + marker.
WithinTruncationBound(limit, head, tail, marker) ==
    Len(input) > limit =>
        /\ Len(output) <= 2 * (head + tail) + Len(marker)
        /\ Contains(output, FirstChars(input, head))
        /\ Contains(output, LastChars(input, tail))

\* C7: for every input line longer than the truncation threshold (300 in
\* contextmap.py, 500 in cartographer.py) the compressor's output for that
\* line is at most 2 x (head window + tail window) + marker length long and
\* holds the line's head segment and its tail segment verbatim. A line the
\* compressor drops has no output and is left out of the statement.
C7_LongLineBoundedHeadTailKept ==
    /\ stage = "contextmap" /\ output # <<>> =>
           WithinTruncationBound(LineLimit, LineHead, LineTail, TruncationMarker(input))
    /\ stage = "cartographer" =>
           WithinTruncationBound(CgLineLimit, CgLineHead, CgLineTail, OutputTruncated)

\* What does hold: C7 of cartographer.py, and of contextmap.py for the
\* lines that are no prompt.
CartographerLongLineBounded ==
    stage = "cartographer" =>
        WithinTruncationBound(CgLineLimit, CgLineHead, CgLineTail, OutputTruncated)
ContextmapPlainLongLineBounded ==
    stage = "contextmap" /\ ~IsPrompt(input) /\ ~IsNoise(input) =>
        WithinTruncationBound(LineLimit, LineHead, LineTail, TruncationMarker(input))

\* " chars truncated] ... ", the end of the truncation marker
CharsTruncated == <<32, 99, 104, 97, 114, 115, 32, 116, 114, 117, 110, 99, 97, 116, 101, 100,
                    93, 32, 46, 46, 46, 32>>

\* C13: a line that is both a prompt boundary (it starts, after stripping,
\* with "> " or the arrow prompt) and longer than the length threshold is
\* tagged as a step boundary and then truncated: the compressor's output
\* for it carries the step-boundary tag and the head + "N chars truncated"
\* marker + tail form, not the full-length line.
C13_LongPromptTaggedThenTruncated ==
    stage = "contextmap" /\ IsPrompt(input) /\ Len(input) > LineLimit =>
        /\ StartsWith(output, UserStepTag)
        /\ Contains(output, CharsTruncated)
        /\ ~Contains(output, Strip(input))

\* What does hold: the long prompt line is tagged, and kept whole.
LongPromptTaggedAndKeptWhole ==
    stage = "contextmap" /\ IsPrompt(input) /\ Len(input) > LineLimit =>
        output = UserStepTag \o Strip(input)

----------------------------------------------------------------------------
(* SpecComp: contextmap's compressor applied to sanitized texts of several *)
(* lines, of every kind the loop distinguishes.                            *)

MaxLines == 3

\* "> fix login bug"
FixLoginBug == <<62, 32, 102, 105, 120, 32, 108, 111, 103, 105, 110, 32, 98, 117, 103>>
\* "Done."
Done == <<68, 111, 110, 101, 46>>
\* the arrow prompt with a progress pattern in it: "❯ Fetching... x"
ArrowFetching == <<10095, 32, 70, 101, 116, 99, 104, 105, 110, 103, 46, 46, 46, 32, 120>>
\* an indented prompt: "  > hi  "
IndentedPrompt == <<32, 32, 62, 32, 104, 105, 32, 32>>
\* "Downloading... 5%"
DownloadingLine == <<68, 111, 119, 110, 108, 111, 97, 100, 105, 110, 103, 46, 46, 46, 32, 53,
                     37>>

\* Prompts (plain, with a progress pattern, indented), progress lines, an
\* ordinary line, an empty one, and a line one character over the threshold.
CompLines == {FixLoginBug, ArrowFetching, IndentedPrompt, Resolving, DownloadingLine, Done,
              <<>>, Body(LineLimit + 1)}

\* The scenario of the specification after sanitization:
\* "> fix login bug\nResolving...\nResolving...\nDone."
SanitizedScenario == Join(<<FixLoginBug, Resolving, Resolving, Done>>)

InitComp ==
    /\ input \in {Join(ls) : ls \in UNION {[1..n -> CompLines] : n \in 1..MaxLines}}
                 \cup {SanitizedScenario}
    /\ output = <<>>
    /\ stage = "in"
    /\ RunIdle

CompressText ==
    /\ stage = "in"
    /\ output' = smart_compress_transcript(input)
    /\ stage' = "contextmap"
    /\ UNCHANGED <<input, runVars>>

NextComp == CompressText

SpecComp == InitComp /\ [][NextComp]_vars

\* What the claim has the compressor emit for a line it keeps.
EmittedLine(line) ==
    IF IsPrompt(line) THEN UserStepTag \o Strip(line)
    ELSE IF Len(line) > LineLimit
         THEN FirstChars(line, LineHead) \o TruncationMarker(line) \o LastChars(line, LineTail)
         ELSE line

\* C14: the compressor applies its heuristics per line in the precedence
\* prompt boundary, noise suppression, truncation, and keeps the order of
\* the lines: every prompt line is emitted preceded by the step-boundary tag
\* (also when it contains a noise pattern), every other line containing
\* "Resolving...", "Fetching..." or "Downloading..." is absent, and every
\* other line is emitted (truncated if over the threshold); so the scenario
\* of one prompt line, two "Resolving..." lines and "Done." yields only the
\* tagged prompt line and "Done.".
C14_PrecedenceAndOrder ==
    stage = "contextmap" =>
        LET lines == Split(input)
            kept == SelectSeq(lines, LAMBDA l : IsPrompt(l) \/ ~IsNoise(l))
        IN /\ output = Join([i \in 1..Len(kept) |-> EmittedLine(kept[i])])
           /\ input = SanitizedScenario =>
                  output = UserStepTag \o FixLoginBug \o <<NL>> \o Done

\* The scenario has been compressed, and so has a text in which a prompt
\* with a noise pattern stands between a noise line and an ordinary one.
C14_Witness ==
    /\ stage = "contextmap"
    /\ input = Join(<<Resolving, ArrowFetching, Done>>)
    /\ output = UserStepTag \o Strip(ArrowFetching) \o <<NL>> \o Done

----------------------------------------------------------------------------
(* The request handed to the engine.                                       *)

\* `transcript[-80000:]` (contextmap.py), `transcript[-100000:]` (cartographer.py)
TranscriptWindow == 80000
CgTranscriptWindow == 100000

\* "=== PREVIOUS SESSION HTML ===\n"
PreviousHeader == <<61, 61, 61, 32, 80, 82, 69, 86, 73, 79, 85, 83, 32, 83, 69, 83, 83, 73,
                    79, 78, 32, 72, 84, 77, 76, 32, 61, 61, 61, 10>>
\* "\n\n=== CURRENT SESSION TRANSCRIPT ===\n"
CurrentHeader == <<10, 10, 61, 61, 61, 32, 67, 85, 82, 82, 69, 78, 84, 32, 83, 69, 83, 83,
                   73, 79, 78, 32, 84, 82, 65, 78, 83, 67, 82, 73, 80, 84, 32, 61, 61, 61, 10>>
\* "Here is the session transcript. Analyze it:\n\n"
AnalyzeHeader == <<72, 101, 114, 101, 32, 105, 115, 32, 116, 104, 101, 32, 115, 101, 115,
                   115, 105, 111, 110, 32, 116, 114, 97, 110, 115, 99, 114, 105, 112, 116,
                   46, 32, 65, 110, 97, 108, 121, 122, 101, 32, 105, 116, 58, 10, 10>>

\* A plausible slip: the whole transcript goes into the request.
prompt_content_unwindowed(old, text) == PreviousHeader \o old \o CurrentHeader \o text

\* contextmap.generate_summary: prompt_content
prompt_content(old, text) ==
    PreviousHeader \o old \o CurrentHeader \o LastChars(text, TranscriptWindow)

\* cartographer.generate_summary: user_prompt
user_prompt(text) == AnalyzeHeader \o LastChars(text, CgTranscriptWindow)

----------------------------------------------------------------------------
(* SpecWin: the request built from transcripts whose length is around the  *)
(* two windows.                                                            *)

MaxWinExtra == 8

\* SpecWin holds a text in its state as pages of PageSize characters: the
\* functions are applied to the text itself, Unpage of the pages.
PageSize == 1000

Pages(s) ==
    [k \in 1..((Len(s) + PageSize - 1) \div PageSize) |->
        SubSeq(s, (k - 1) * PageSize + 1, IF k * PageSize > Len(s) THEN Len(s) ELSE k * PageSize)]

RECURSIVE Unpage(_)
Unpage(pages) == IF pages = <<>> THEN <<>> ELSE Head(pages) \o Unpage(Tail(pages))

WinLens == {0, 1} \cup {w + d : w \in {TranscriptWindow, CgTranscriptWindow},
                                d \in (-MaxWinExtra)..MaxWinExtra}

\* "", and a previous report of a few characters
OldTexts == {<<>>, <<60, 104, 116, 109, 108, 62>>}

InitWin ==
    /\ \E n \in WinLens : input = Pages(Body(n))
    /\ output = <<>>
    /\ stage = "in"
    /\ entry = "none" /\ pc = "off" /\ logFile = "off" /\ logStale = FALSE /\ creds = FALSE
    /\ startLog = "off" /\ hkFailure = "off" /\ proc = <<>> /\ writeOrder = <<>>
    /\ outHasDir = FALSE /\ outFile = "off" /\ prevFile = "off"
    /\ transcript = <<>> /\ old_summary \in OldTexts /\ summary = "off" /\ gs = "off"
    /\ tmpFiles = {} /\ tmp_system = "None" /\ tmp_prompt = "None"
    /\ engineCalls = 0 /\ engineFailed = FALSE /\ request = "off" /\ runs = 0

WinContextmap ==
    /\ stage = "in"
    /\ output' = Pages(prompt_content(old_summary, Unpage(input)))
    /\ stage' = "contextmap"
    /\ UNCHANGED <<input, runVars>>

WinCartographer ==
    /\ stage = "in"
    /\ output' = Pages(user_prompt(Unpage(input)))
    /\ stage' = "cartographer"
    /\ UNCHANGED <<input, runVars>>

NextWin == WinContextmap \/ WinCartographer

SpecWin == InitWin /\ [][NextWin]_vars

\* `section` is the last min(Len(text), window) characters of `text`.
IsTrailingWindow(section, text, window) ==
    LET n == IF Len(text) <= window THEN Len(text) ELSE window
    IN section = SubSeq(text, Len(text) - n + 1, Len(text))

\* The transcript section of the request: what follows the headers.
TranscriptSection ==
    IF stage = "contextmap"
    THEN Drop(Unpage(output), Len(PreviousHeader) + Len(old_summary) + Len(CurrentHeader) + 1)
    ELSE Drop(Unpage(output), Len(AnalyzeHeader) + 1)

\* C8: the compressed transcript handed downstream is at most the
\* tail-window budget long (80000 characters in contextmap.py, 100000 in
\* cartographer.py) and is the trailing window of the compressed text.
C8_TranscriptTailWindowed ==
    /\ stage = "contextmap" =>
           /\ Len(TranscriptSection) <= TranscriptWindow
           /\ IsTrailingWindow(TranscriptSection, Unpage(input), TranscriptWindow)
    /\ stage = "cartographer" =>
           /\ Len(TranscriptSection) <= CgTranscriptWindow
           /\ IsTrailingWindow(TranscriptSection, Unpage(input), CgTranscriptWindow)

\* A transcript longer than the window has been cut to it.
C8_Witness ==
    /\ stage = "contextmap"
    /\ Len(Unpage(input)) > TranscriptWindow
    /\ Len(TranscriptSection) = TranscriptWindow

----------------------------------------------------------------------------
(* The files, the reports and the messages of a run.                       *)

NoFile == [exists |-> FALSE, text |-> <<>>]
File(t) == [exists |-> TRUE, text |-> t]

NoLog == [exists |-> FALSE, readable |-> FALSE, text |-> <<>>]
Log(t) == [exists |-> TRUE, readable |-> TRUE, text |-> t]
\* a log file that exists and whose open() or read() raises
UnreadableLog == [exists |-> TRUE, readable |-> FALSE, text |-> <<>>]

\* Python's None, for the locals that hold a text or a file name
None == <<>>
\* `summary` before generate_summary has returned
NoSummary == <<-1>>

\* f"❌ Claude CLI Error: {process.stderr}"
CliError == <<10060, 32, 67, 108, 97, 117, 100, 101, 32, 67, 76, 73, 32, 69, 114, 114, 111,
              114, 58, 32>>
\* f"❌ Execution Error: {str(e)}"
ExecutionError == <<10060, 32, 69, 120, 101, 99, 117, 116, 105, 111, 110, 32, 69, 114, 114,
                    111, 114, 58, 32>>
\* f"❌ Error generating summary: {str(e)}"
CgError == <<10060, 32, 69, 114, 114, 111, 114, 32, 103, 101, 110, 101, 114, 97, 116, 105,
             110, 103, 32, 115, 117, 109, 109, 97, 114, 121, 58, 32>>
\* dummy_report, its first line: "# 🗺️ Session Evolution\n"
PlaceholderReport == <<35, 32, 128506, 65039, 32, 83, 101, 115, 115, 105, 111, 110, 32, 69,
                       118, 111, 108, 117, 116, 105, 111, 110, 10>>
\* f"[Error reading log: {str(e)}]"
ErrorReadingLog == <<91, 69, 114, 114, 111, 114, 32, 114, 101, 97, 100, 105, 110, 103, 32,
                     108, 111, 103, 58, 32, 93>>

IsErrorText(t) == t # <<>> /\ t[1] = 10060

\* A report, as far as the compaction rules read it: one character per
\* full-detail step card, then the "Archived History" section, one
\* character for its heading and one per archived step.
StepCard == <<9632>>
ArchiveHeading == <<9633>>
ArchivedLine == <<9643>>

RECURSIVE Repeat(_, _)
Repeat(t, n) == IF n <= 0 THEN <<>> ELSE t \o Repeat(t, n - 1)

ReportText(full, archived) ==
    Repeat(StepCard, full)
    \o (IF archived > 0 THEN ArchiveHeading \o Repeat(ArchivedLine, archived) ELSE <<>>)

Count(t, c) == Cardinality({i \in 1..Len(t) : <<t[i]>> = c})
FullSteps(t) == Count(t, StepCard)
ArchivedSteps(t) == Count(t, ArchivedLine)
ArchiveEntries(t) == Count(t, ArchiveHeading)

\* "Keep the most recent 30 iteration steps in full detail."
K == 30

----------------------------------------------------------------------------
(* parse_transcript                                                        *)

\* contextmap.py: parse_transcript
parse_transcript(log) ==
    IF ~log.exists THEN <<>>
    ELSE IF ~log.readable THEN ErrorReadingLog
    ELSE smart_compress_transcript(log.text)

\* cartographer.py: parse_transcript, for a log it can read
cartographer_parse_transcript(log) ==
    IF ~log.exists THEN <<>> ELSE cartographer_compress(log.text)

----------------------------------------------------------------------------
(* Spec: runs of main(), one after the other, against one output path.     *)

MaxRuns == 2
MaxExcess == 1
MaxArchived == 1

\* "\x1b[32m> fix login bug\x1b[0m\nResolving...\nResolving...\nDone."
ScenarioLog == <<27, 91, 51, 50, 109, 62, 32, 102, 105, 120, 32, 108, 111, 103, 105, 110, 32,
                 98, 117, 103, 27, 91, 48, 109, 10, 82, 101, 115, 111, 108, 118, 105, 110,
                 103, 46, 46, 46, 10, 82, 101, 115, 111, 108, 118, 105, 110, 103, 46, 46, 46,
                 10, 68, 111, 110, 101, 46>>

\* No log; an empty one; blanks only; a colour sequence and a newline only;
\* the scenario of the specification; one that cannot be read.
LogFiles == {NoLog, Log(<<>>), Log(<<32, 10>>), Log(<<27, 91, 48, 109, 10>>),
             Log(ScenarioLog), UnreadableLog}

\* What the engine may print when it exits 0: main() takes any stdout.
EngineOutputs ==
    {ReportText(f, a) : f \in {1, K, K + MaxExcess}, a \in 0..MaxArchived} \cup {<<>>}

\* What may lie at the output path before the first run.
InitialOutFiles == {NoFile, File(ReportText(K, 1)), File(ReportText(K + 5, 0))}

Terminal == {"done", "crashed", "killed"}

\* argparse and the environment of one invocation; the locals of main().
BeginRun(e) ==
    /\ entry' = e
    /\ pc' = "start"
    /\ logFile' \in LogFiles
    /\ startLog' = logFile'
    /\ hkFailure' = "none"
    /\ logStale' \in BOOLEAN
    /\ creds' \in (IF e = "cartographer" THEN BOOLEAN ELSE {FALSE})
    /\ outHasDir' \in BOOLEAN
    /\ prevFile' = outFile
    /\ transcript' = <<>>
    /\ old_summary' = <<>>
    /\ summary' = NoSummary
    /\ gs' = "off"
    /\ tmp_system' = None
    /\ tmp_prompt' = None
    /\ engineCalls' = 0
    /\ engineFailed' = FALSE
    /\ request' = <<>>

Init ==
    /\ input = <<>> /\ output = <<>> /\ stage = "off"
    /\ entry \in {"contextmap", "cartographer"}
    /\ pc = "start"
    /\ logFile \in LogFiles
    /\ startLog = logFile
    /\ hkFailure = "none"
    /\ logStale \in BOOLEAN
    /\ creds \in (IF entry = "cartographer" THEN BOOLEAN ELSE {FALSE})
    /\ outHasDir \in BOOLEAN
    /\ outFile \in InitialOutFiles
    /\ prevFile = outFile
    /\ transcript = <<>>
    /\ old_summary = <<>>
    /\ summary = NoSummary
    /\ gs = "off"
    /\ tmpFiles = {}
    /\ tmp_system = None
    /\ tmp_prompt = None
    /\ engineCalls = 0
    /\ engineFailed = FALSE
    /\ request = <<>>
    /\ runs = 1
    /\ proc = <<>>
    /\ writeOrder = <<>>

\* The next invocation, once the previous one has ended.
StartRun ==
    /\ pc \in Terminal
    /\ runs < MaxRuns
    /\ \E e \in {"contextmap", "cartographer"} : BeginRun(e)
    /\ runs' = runs + 1
    /\ UNCHANGED <<textVars, concVars, outFile, tmpFiles>>

\* The process is killed (or the machine stops) in the middle of a run.
Kill ==
    /\ pc \notin Terminal
    /\ pc' = "killed"
    /\ UNCHANGED <<textVars, concVars, entry, logFile, logStale, startLog, hkFailure, creds,
                   outHasDir, outFile, prevFile, transcript, old_summary, summary, gs, tmpFiles,
                   tmp_system, tmp_prompt, engineCalls, engineFailed, request, runs>>

----------------------------------------------------------------------------
(* contextmap.py: main() and generate_summary().                           *)

\* The steps of housekeeping that can raise: resolving the log directory
\* (os.getcwd), os.listdir, os.path.getmtime and os.remove on the run's own
\* log, and either of the two on another file of the directory.
HousekeepingFailures == {"none", "resolve", "listdir", "getmtime_own", "remove_own", "other_file"}

\* Does the loop of cleanup_old_logs reach os.remove(own log) and succeed.
\* "resolve" and "listdir" end the cleanup before the loop; an OSError on the
\* own log is passed over and leaves it; one on another file is passed over
\* and the loop goes on.
OwnLogRemoved(log, stale, failure) ==
    log.exists /\ stale /\ failure \in {"none", "other_file"}

\* main, step 0: cleanup_old_logs(log_dir). The run's own log lies in
\* log_dir; it is removed when it is a stale *.log. Whatever raises is
\* caught (OSError in the loop, Exception around the cleanup and around
\* step 0), and main goes on to step 2.
Housekeeping ==
    /\ entry = "contextmap" /\ pc = "start"
    /\ \E failure \in HousekeepingFailures :
           /\ failure = "getmtime_own" => logFile.exists
           /\ failure = "remove_own" => logFile.exists /\ logStale
           /\ hkFailure' = failure
           /\ logFile' = IF OwnLogRemoved(logFile, logStale, failure) THEN NoLog ELSE logFile
    /\ pc' = "parse"
    /\ UNCHANGED <<textVars, concVars, entry, logStale, startLog, creds, outHasDir, outFile,
                   prevFile, transcript, old_summary, summary, gs, tmpFiles, tmp_system,
                   tmp_prompt, engineCalls, engineFailed, request, runs>>

\* main, step 2: parse_transcript and the early return on an empty one
Parse ==
    /\ entry = "contextmap" /\ pc = "parse"
    /\ transcript' = parse_transcript(logFile)
    /\ pc' = IF Strip(transcript') = <<>> THEN "done" ELSE "load"
    /\ UNCHANGED <<textVars, concVars, entry, logFile, logStale, startLog, hkFailure, creds,
                   outHasDir, outFile, prevFile, old_summary, summary, gs, tmpFiles, tmp_system,
                   tmp_prompt, engineCalls, engineFailed, request, runs>>

\* main: load the previous summary; a read that raises leaves it "".
Load ==
    /\ entry = "contextmap" /\ pc = "load"
    /\ \E readOk \in BOOLEAN :
           old_summary' = IF outFile.exists /\ readOk THEN outFile.text ELSE <<>>
    /\ pc' = "summary"
    /\ gs' = "build"
    /\ UNCHANGED <<textVars, concVars, entry, logFile, logStale, startLog, hkFailure, creds,
                   outHasDir, outFile, prevFile, transcript, summary, tmpFiles, tmp_system,
                   tmp_prompt, engineCalls, engineFailed, request, runs>>

gsFrame == <<textVars, concVars, entry, pc, logFile, logStale, startLog, hkFailure, creds,
             outHasDir, outFile, prevFile, transcript, old_summary, runs>>

\* the scratch files of this call
SystemFile == <<"system", runs>>
PromptFile == <<"prompt", runs>>

\* generate_summary: prompt_content = f"..."
GsBuildPrompt ==
    /\ gs = "build"
    /\ request' = prompt_content(old_summary, transcript)
    /\ gs' = "system_create"
    /\ UNCHANGED <<gsFrame, summary, tmpFiles, tmp_system, tmp_prompt, engineCalls,
                   engineFailed>>

\* with tempfile.NamedTemporaryFile(mode='w', delete=False, ...) as f:
\* the file is on disk once this succeeds; a failure goes to `except`.
GsCreateSystem ==
    /\ gs = "system_create"
    /\ \/ /\ tmpFiles' = tmpFiles \cup {SystemFile}
          /\ gs' = "system_write"
          /\ UNCHANGED summary
       \/ /\ summary' = ExecutionError
          /\ gs' = "finally"
          /\ UNCHANGED tmpFiles
    /\ UNCHANGED <<gsFrame, tmp_system, tmp_prompt, engineCalls, engineFailed, request>>

\* f.write(system_prompt); tmp_system = f.name. A write that raises leaves
\* the `with` block before the assignment.
GsWriteSystem ==
    /\ gs = "system_write"
    /\ \/ /\ tmp_system' = SystemFile
          /\ gs' = "prompt_create"
          /\ UNCHANGED summary
       \/ /\ summary' = ExecutionError
          /\ gs' = "finally"
          /\ UNCHANGED tmp_system
    /\ UNCHANGED <<gsFrame, tmpFiles, tmp_prompt, engineCalls, engineFailed, request>>

GsCreatePrompt ==
    /\ gs = "prompt_create"
    /\ \/ /\ tmpFiles' = tmpFiles \cup {PromptFile}
          /\ gs' = "prompt_write"
          /\ UNCHANGED summary
       \/ /\ summary' = ExecutionError
          /\ gs' = "finally"
          /\ UNCHANGED tmpFiles
    /\ UNCHANGED <<gsFrame, tmp_system, tmp_prompt, engineCalls, engineFailed, request>>

\* f.write(prompt_content); tmp_prompt = f.name
GsWritePrompt ==
    /\ gs = "prompt_write"
    /\ \/ /\ tmp_prompt' = PromptFile
          /\ gs' = "call"
          /\ UNCHANGED summary
       \/ /\ summary' = ExecutionError
          /\ gs' = "finally"
          /\ UNCHANGED tmp_prompt
    /\ UNCHANGED <<gsFrame, tmpFiles, tmp_system, engineCalls, engineFailed, request>>

\* subprocess.run([real_claude, "-p", prompt_content, ...]): it raises, it
\* exits non-zero, or it exits 0 and its stdout is the return value.
GsCall ==
    /\ gs = "call"
    /\ engineCalls' = engineCalls + 1
    /\ \/ /\ summary' = ExecutionError
          /\ engineFailed' = TRUE
       \/ /\ summary' = CliError
          /\ engineFailed' = TRUE
       \/ /\ summary' \in EngineOutputs
          /\ UNCHANGED engineFailed
    /\ gs' = "finally"
    /\ UNCHANGED <<gsFrame, tmpFiles, tmp_system, tmp_prompt, request>>

\* finally: remove the files tmp_system and tmp_prompt name; then return.
GsFinally ==
    /\ gs = "finally"
    /\ tmpFiles' = tmpFiles \ {f \in {tmp_system, tmp_prompt} : f # None}
    /\ gs' = "off"
    /\ pc' = "save_mkdir"
    /\ UNCHANGED <<textVars, concVars, entry, logFile, logStale, startLog, hkFailure, creds,
                   outHasDir, outFile, prevFile, transcript, old_summary, summary, tmp_system,
                   tmp_prompt, engineCalls, engineFailed, request, runs>>

----------------------------------------------------------------------------
(* Both scripts: "3. Save".                                                *)

\* os.makedirs(os.path.dirname(args.out), exist_ok=True): dirname is "" for
\* a bare file name, and os.makedirs("") raises FileNotFoundError.
SaveMakedirs ==
    /\ pc = "save_mkdir"
    /\ pc' = IF outHasDir THEN "save_open" ELSE "crashed"
    /\ UNCHANGED <<textVars, concVars, entry, logFile, logStale, startLog, hkFailure, creds,
                   outHasDir, outFile, prevFile, transcript, old_summary, summary, gs, tmpFiles,
                   tmp_system, tmp_prompt, engineCalls, engineFailed, request, runs>>

\* open(args.out, 'w') creates the file or truncates it
SaveOpen ==
    /\ pc = "save_open"
    /\ outFile' = File(<<>>)
    /\ pc' = "save_write"
    /\ UNCHANGED <<textVars, concVars, entry, logFile, logStale, startLog, hkFailure, creds,
                   outHasDir, prevFile, transcript, old_summary, summary, gs, tmpFiles,
                   tmp_system, tmp_prompt, engineCalls, engineFailed, request, runs>>

\* f.write(summary) and the close at the end of the `with` block
SaveWrite ==
    /\ pc = "save_write"
    /\ outFile' = File(summary)
    /\ pc' = "done"
    /\ UNCHANGED <<textVars, concVars, entry, logFile, logStale, startLog, hkFailure, creds,
                   outHasDir, prevFile, transcript, old_summary, summary, gs, tmpFiles,
                   tmp_system, tmp_prompt, engineCalls, engineFailed, request, runs>>

----------------------------------------------------------------------------
(* cartographer.py: main() and generate_summary().                         *)

\* main, step 1: without a key the placeholder report is built, with
\* os.path.getsize(args.log_file), which raises when there is no such file.
CgCheckKey ==
    /\ entry = "cartographer" /\ pc = "start"
    /\ IF creds THEN pc' = "parse" /\ UNCHANGED summary
       ELSE IF logFile.exists THEN pc' = "save_mkdir" /\ summary' = PlaceholderReport
       ELSE pc' = "crashed" /\ UNCHANGED summary
    /\ UNCHANGED <<textVars, concVars, entry, logFile, logStale, startLog, hkFailure, creds,
                   outHasDir, outFile, prevFile, transcript, old_summary, gs, tmpFiles,
                   tmp_system, tmp_prompt, engineCalls, engineFailed, request, runs>>

\* main, step 2: parse_transcript (its open() is not guarded) and the early
\* return on an empty transcript
CgParse ==
    /\ entry = "cartographer" /\ pc = "parse"
    /\ IF logFile.exists /\ ~logFile.readable
       THEN pc' = "crashed" /\ UNCHANGED transcript
       ELSE /\ transcript' = cartographer_parse_transcript(logFile)
            /\ pc' = IF Strip(transcript') = <<>> THEN "done" ELSE "summary"
    /\ UNCHANGED <<textVars, concVars, entry, logFile, logStale, startLog, hkFailure, creds,
                   outHasDir, outFile, prevFile, old_summary, summary, gs, tmpFiles, tmp_system,
                   tmp_prompt, engineCalls, engineFailed, request, runs>>

\* generate_summary: the call raises and the message is returned, or the
\* model's answer is.
CgGenerateSummary ==
    /\ entry = "cartographer" /\ pc = "summary"
    /\ request' = user_prompt(transcript)
    /\ engineCalls' = engineCalls + 1
    /\ \/ /\ summary' = CgError
          /\ engineFailed' = TRUE
       \/ /\ summary' \in EngineOutputs
          /\ UNCHANGED engineFailed
    /\ pc' = "save_mkdir"
    /\ UNCHANGED <<textVars, concVars, entry, logFile, logStale, startLog, hkFailure, creds,
                   outHasDir, outFile, prevFile, transcript, old_summary, gs, tmpFiles,
                   tmp_system, tmp_prompt, runs>>

Next ==
    \/ StartRun \/ Kill
    \/ Housekeeping \/ Parse \/ Load
    \/ GsBuildPrompt \/ GsCreateSystem \/ GsWriteSystem \/ GsCreatePrompt \/ GsWritePrompt
    \/ GsCall \/ GsFinally
    \/ SaveMakedirs \/ SaveOpen \/ SaveWrite
    \/ CgCheckKey \/ CgParse \/ CgGenerateSummary

Spec == Init /\ [][Next]_vars

----------------------------------------------------------------------------
(* The claims about a run.                                                 *)

\* C1: when the engine call fails (non-zero exit, or an exception while
\* invoking it) the previous report at the output path is not destroyed: at
\* the end of such a run the output file still holds the previous report,
\* and the file is only ever replaced by a valid (non-error) report. Stated
\* for the runs that start with a report on disk.
C1_FailedEngineKeepsPreviousReport ==
    prevFile.exists /\ pc = "done" =>
        /\ engineFailed => outFile = prevFile
        /\ outFile # prevFile => ~IsErrorText(outFile.text)

\* C2: in every reachable state, also between the start and the end of the
\* final write and after a crash at any point, the output file holds the
\* complete previous report or the complete new report, never an empty or
\* partially written one. Stated for the runs that start with a report on
\* disk.
C2_OutFileNeverPartial ==
    prevFile.exists =>
        \/ outFile = prevFile
        \/ summary # NoSummary /\ outFile = File(summary)

\* The log is missing, or nothing is left of it after sanitization and
\* strip().
NothingToProcess ==
    \/ ~logFile.exists
    \/ /\ logFile.readable
       /\ Strip(IF entry = "contextmap" THEN clean_ansi(logFile.text)
                ELSE cartographer_clean_ansi(logFile.text)) = <<>>

\* C3: in both entry points and whatever the credentials, when the log file
\* is missing or the transcript is empty (or blank) after sanitization, the
\* run exits early and successfully, the engine is not invoked and the
\* output file is neither created nor modified.
C3_NoInputNoOutput ==
    NothingToProcess => pc # "crashed" /\ engineCalls = 0 /\ outFile = prevFile

\* What does hold: C3 of contextmap.py.
ContextmapNoInputNoOutput ==
    entry = "contextmap" /\ NothingToProcess =>
        pc # "crashed" /\ engineCalls = 0 /\ outFile = prevFile

\* A run of contextmap.py that called the engine and saved what it returned.
Merged == entry = "contextmap" /\ pc = "done" /\ engineCalls > 0

\* C4: after any sequence of merges against one output path the persisted
\* report holds at most K = 30 full-detail steps, every older step being in
\* the single archive entry.
C4_AtMostKFullSteps ==
    Merged => FullSteps(outFile.text) <= K /\ ArchiveEntries(outFile.text) <= 1

\* C5: merging a session into a report of K+5 full-detail steps yields
\* exactly K full-detail steps and one archive entry, and the number of
\* archived steps never decreases from one run to the next.
C5_CompactionExactAndArchiveMonotone ==
    Merged =>
        /\ ArchivedSteps(outFile.text) >= ArchivedSteps(prevFile.text)
        /\ FullSteps(prevFile.text) = K + 5 =>
               FullSteps(outFile.text) = K /\ ArchiveEntries(outFile.text) = 1

\* C9: whatever the log file (present, missing, empty), the credentials and
\* the engine, and the output path (with or without a directory), main
\* terminates normally, by an early return or after writing a report; with
\* no credentials it writes the placeholder report.
C9_MainTerminatesNormally ==
    /\ (~logFile.exists \/ logFile.readable) => pc # "crashed"
    /\ entry = "cartographer" /\ ~creds /\ pc \in {"done", "crashed"} =>
           pc = "done" /\ outFile = File(PlaceholderReport)

\* What does hold: with a directory in the output path, contextmap.py always
\* ends normally.
ContextmapWithDirTerminatesNormally ==
    entry = "contextmap" /\ outHasDir => pc # "crashed"

\* C10: every scratch file generate_summary created is removed by the time
\* it returns, on every exit path, also when a write into a scratch file
\* that has just been created fails.
C10_ScratchFilesRemoved ==
    gs = "off" => \A f \in tmpFiles : f[2] # runs

\* What does hold: the files whose names reached tmp_system and tmp_prompt
\* are removed.
NamedScratchFilesRemoved ==
    gs = "off" => tmp_system \notin tmpFiles /\ tmp_prompt \notin tmpFiles

----------------------------------------------------------------------------
(* The claims about housekeeping.                                          *)

\* What housekeeping leaves of the run's log when nothing raises.
CleanedLog == IF OwnLogRemoved(startLog, logStale, "none") THEN NoLog ELSE startLog

\* The positions of contextmap's main() after parse_transcript has returned.
AfterParse == {"load", "summary", "save_mkdir", "save_open", "save_write", "done", "crashed"}

\* C12: a failure of the housekeeping step (resolving the log directory,
\* listing it, reading a modification time, deleting a file) never aborts
\* or alters report generation: after the failure the run goes on to parse
\* the transcript, call the engine and write the report exactly as it would
\* have without the failure, that is, from the log a housekeeping without
\* failure leaves.
C12_HousekeepingFailureAltersNothing ==
    entry = "contextmap" /\ hkFailure # "none" =>
        /\ pc # "start" => logFile = CleanedLog
        /\ pc \in AfterParse => transcript = parse_transcript(CleanedLog)

\* What does hold: no failure of housekeeping stops the run before step 2,
\* and none alters a run whose own log is not stale.
HousekeepingFailureNeverAborts ==
    [][Housekeeping => pc' = "parse"]_vars
FreshLogFailureAltersNothing ==
    entry = "contextmap" /\ hkFailure # "none" /\ ~logStale /\ pc # "start" =>
        logFile = CleanedLog

\* C16: the housekeeping at the start of a run never removes the log this
\* run was asked to process: for every log that exists when main starts,
\* whatever its age and name, parse_transcript still finds and reads it
\* after cleanup_old_logs has run.
C16_OwnLogSurvivesHousekeeping ==
    entry = "contextmap" /\ startLog.exists =>
        /\ pc # "start" => logFile = startLog
        /\ pc \in AfterParse => transcript = parse_transcript(startLog)

\* What does hold: C16 of the logs that are no *.log older than the cutoff.
FreshLogSurvivesHousekeeping ==
    entry = "contextmap" /\ startLog.exists /\ ~logStale /\ pc # "start" =>
        logFile = startLog

----------------------------------------------------------------------------
(* The claim about the merge request.                                      *)

\* C15: in every run that reaches the engine the merge request is the
\* labeled previous-report section followed by the labeled
\* current-transcript section, the previous-report section holds verbatim
\* what the output file held at the start of the run, and that section is
\* empty only on a first run, when no report exists at the output path.
C15_RequestHoldsPreviousReport ==
    entry = "contextmap" /\ engineCalls > 0 =>
        /\ request = PreviousHeader \o prevFile.text \o CurrentHeader
                     \o LastChars(transcript, TranscriptWindow)
        /\ old_summary = <<>> => ~prevFile.exists

\* What does hold: the request is the two labeled sections, and a previous
\* section that is not empty is the report the run started from.
RequestHoldsWhatWasRead ==
    entry = "contextmap" /\ engineCalls > 0 =>
        /\ request = PreviousHeader \o old_summary \o CurrentHeader
                     \o LastChars(transcript, TranscriptWindow)
        /\ old_summary # <<>> => old_summary = prevFile.text

----------------------------------------------------------------------------
(* SpecConc: two runs of contextmap.py at once against one output path,    *)
(* each with a transcript of its own, from "Load Previous Summary" on.     *)

Procs == {1, 2}

\* The compressed transcript of run p: "> " and one character of its own.
Session(p) == PromptGt \o <<96 + p>>

\* What the engine may return to a run: two reports of different lengths,
\* or the text of a failed call.
ConcOutputs == {ReportText(1, 0), ReportText(2, 1), CliError}

\* Everything SpecConc leaves alone.
concFrame == <<textVars, entry, pc, logFile, logStale, startLog, hkFailure, creds, outHasDir,
               prevFile, transcript, old_summary, summary, gs, tmpFiles, tmp_system,
               tmp_prompt, engineCalls, engineFailed, request, runs>>

InitConc ==
    /\ input = <<>> /\ output = <<>> /\ stage = "off"
    /\ entry = "contextmap" /\ pc = "off" /\ logFile = "off" /\ logStale = FALSE
    /\ startLog = "off" /\ hkFailure = "off" /\ creds = FALSE /\ outHasDir = TRUE
    /\ outFile \in {NoFile, File(ReportText(K, 1))}
    /\ prevFile = outFile
    /\ transcript = <<>> /\ old_summary = <<>> /\ summary = NoSummary /\ gs = "off"
    /\ tmpFiles = {} /\ tmp_system = None /\ tmp_prompt = None
    /\ engineCalls = 0 /\ engineFailed = FALSE /\ request = <<>> /\ runs = 0
    /\ proc = [p \in Procs |->
                  [pc |-> "load", transcript |-> Session(p), old_summary |-> <<>>,
                   request |-> <<>>, summary |-> NoSummary, reads |-> 0, calls |-> 0,
                   opens |-> 0, writes |-> 0]]
    /\ writeOrder = <<>>

\* main: load the previous summary, whatever the file holds at this moment;
\* a read that raises leaves it "".
ConcLoad(p) ==
    /\ proc[p].pc = "load"
    /\ \E readOk \in BOOLEAN :
           proc' = [proc EXCEPT
                       ![p].old_summary = IF outFile.exists /\ readOk THEN outFile.text
                                          ELSE <<>>,
                       ![p].reads = @ + 1,
                       ![p].pc = "call"]
    /\ UNCHANGED <<concFrame, outFile, writeOrder>>

\* summary = generate_summary(transcript, old_summary=old_summary, ...): it
\* does not touch the output path.
ConcGenerate(p) ==
    /\ proc[p].pc = "call"
    /\ \E out \in ConcOutputs :
           proc' = [proc EXCEPT
                       ![p].request = prompt_content(proc[p].old_summary, proc[p].transcript),
                       ![p].summary = out,
                       ![p].calls = @ + 1,
                       ![p].pc = "save_open"]
    /\ UNCHANGED <<concFrame, outFile, writeOrder>>

\* os.makedirs(..., exist_ok=True) on the directory that is there, then
\* open(args.out, 'w'), which creates the file or truncates it; the run's
\* file position is 0.
ConcOpen(p) ==
    /\ proc[p].pc = "save_open"
    /\ outFile' = File(<<>>)
    /\ proc' = [proc EXCEPT ![p].opens = @ + 1, ![p].pc = "save_write"]
    /\ UNCHANGED <<concFrame, writeOrder>>

\* f.write(summary) and the close: the text goes to the file from the run's
\* position 0 on, over what the file holds there; what lies past it stays.
ConcWrite(p) ==
    /\ proc[p].pc = "save_write"
    /\ outFile' = File(proc[p].summary \o Drop(outFile.text, Len(proc[p].summary) + 1))
    /\ proc' = [proc EXCEPT ![p].writes = @ + 1, ![p].pc = "done"]
    /\ writeOrder' = Append(writeOrder, p)
    /\ UNCHANGED concFrame

NextConc == \E p \in Procs : ConcLoad(p) \/ ConcGenerate(p) \/ ConcOpen(p) \/ ConcWrite(p)

SpecConc == InitConc /\ [][NextConc]_vars

\* Run p reads the report once, before its engine call, and rewrites it
\* once, after it.
ReadsOnceWritesOnce(p) ==
    /\ proc[p].reads <= 1 /\ proc[p].calls <= 1 /\ proc[p].opens <= 1 /\ proc[p].writes <= 1
    /\ proc[p].calls = 1 => proc[p].reads = 1
    /\ proc[p].opens = 1 => proc[p].calls = 1
    /\ proc[p].writes = 1 => proc[p].opens = 1
    /\ proc[p].pc = "done" => proc[p].reads = 1 /\ proc[p].writes = 1

AllDone == \A p \in Procs : proc[p].pc = "done"

\* C11: each run reads the persisted report exactly once, before the engine
\* call, and rewrites it exactly once, after the engine call, with no
\* locking; so when two runs execute at once against one report path the
\* file ends as the output of whichever run writes last (and that output
\* can have been built from a previous report without the other run's
\* session).
C11_LastWriterWins ==
    /\ \A p \in Procs : ReadsOnceWritesOnce(p)
    /\ AllDone => outFile = File(proc[writeOrder[Len(writeOrder)]].summary)

\* What does hold: one read and one rewrite per run, in that order.
EveryRunReadsOnceWritesOnce == \A p \in Procs : ReadsOnceWritesOnce(p)

\* The lost update does happen: both runs have written, the file is the
\* last writer's output, and that run had read the report both started from.
LostUpdate ==
    /\ AllDone
    /\ outFile = File(proc[writeOrder[2]].summary)
    /\ proc[writeOrder[2]].old_summary = prevFile.text
    /\ proc[writeOrder[1]].summary # prevFile.text
LostUpdateNeverHappens == ~LostUpdate

====
